---------------------------- MODULE Spec2Model ----------------------------
(***************************************************************************)
(* A model of src/src/prePocessData.py: the loan pre-processing pipeline   *)
(* (processZeroSalaries, combineFeatures, cleanData, removeOutliers,       *)
(* labelEncoding).  Every function is a small state machine over its own   *)
(* locals; a specification per function draws the function's arguments     *)
(* from bounded sets in its initial predicate and then runs the function.  *)
(*                                                                         *)
(* Conventions                                                             *)
(*   - a Python dict is a TLA+ function; a failed d[k] is the control      *)
(*     state "KeyError" (the exception leaves the function, nothing is     *)
(*     returned);                                                          *)
(*   - a DataFrame is a record [cols |-> set of column names,              *)
(*     rows |-> sequence of rows], a row being a function from the         *)
(*     column names to values;                                             *)
(*   - pc is the position of the running function: "<name>" while its      *)
(*     loop runs, "done" once it has returned, or the name of the          *)
(*     exception that left it;                                             *)
(*   - returned is the value handed back by the return statement.          *)
(***************************************************************************)
EXTENDS Integers, Sequences, FiniteSets, TLC

VARIABLES
    pc, returned,
    \* processZeroSalaries
    salaries, districtAvgSalary, substituteWithAvg,
    processedSalaries, nZeroSalaries, pending, salariesIn,
    \* combineFeatures
    loans, clients, dispositions,
    effortRates, savingsRates, districtCrimeRates, expenses,
    clientId, loanIdx,
    gendersByLoan, ageGroupByLoan, agesByLoan,
    effortRateByLoan, savingsRateByLoan, distCrimeByLoan, expensesByLoan,
    \* cleanData, removeOutliers, labelEncoding: the argument, and its value
    \* at the call
    loansDataFrame, frameIn,
    \* cleanData
    noRedundantData, colIdx,
    \* removeOutliers; scored[k] is the index of the table the k-th column
    \* was scored on
    result, totalOutliers, colPos, scored,
    \* labelEncoding
    encodedDataFrame, years, months, days, rowIdx

salaryVars == <<salaries, districtAvgSalary, substituteWithAvg,
                processedSalaries, nZeroSalaries, pending, salariesIn>>

combineInputs == <<loans, clients, dispositions,
                   effortRates, savingsRates, districtCrimeRates, expenses>>

combineLists == <<gendersByLoan, ageGroupByLoan, agesByLoan,
                  effortRateByLoan, savingsRateByLoan, distCrimeByLoan,
                  expensesByLoan>>

combineVars == <<combineInputs, clientId, loanIdx, combineLists>>

frameVars == <<loansDataFrame, frameIn>>

cleanVars == <<noRedundantData, colIdx>>

outlierVars == <<result, totalOutliers, colPos, scored>>

encodeVars == <<encodedDataFrame, years, months, days, rowIdx>>

vars == <<pc, returned, salaryVars, combineVars, frameVars, cleanVars,
          outlierVars, encodeVars>>

\* What a call of one function leaves alone: the locals of the others.
notSalary == <<combineVars, frameVars, cleanVars, outlierVars, encodeVars>>
notCombine == <<salaryVars, frameVars, cleanVars, outlierVars, encodeVars>>
notClean == <<salaryVars, combineVars, outlierVars, encodeVars>>
notOutliers == <<salaryVars, combineVars, cleanVars, encodeVars>>
notEncode == <<salaryVars, combineVars, cleanVars, outlierVars>>

(***************************************************************************)
(* Bounds of the model.                                                    *)
(***************************************************************************)
MaxSalary == 2
MaxLoans == 2
MaxDispositions == 2
MaxClients == 2
MaxMissing == 1
MaxCleanRows == 2
MaxOutlierRows == 11
MaxEncodeRows == 2

AccountIds == {1, 2}
ClientIds == {1, 2}

(***************************************************************************)
(* Generic helpers.                                                        *)
(***************************************************************************)
\* All dicts with keys among K and values among V.
Dicts(K, V) == UNION {[D -> V] : D \in SUBSET K}

EmptyDict == [k \in {} |-> 0]

\* All sequences over S of length at most n.
SeqsUpTo(S, n) == UNION {[1..k -> S] : k \in 0..n}

Min(S) == CHOOSE x \in S : \A y \in S : x <= y

Max(S) == CHOOSE x \in S : \A y \in S : y <= x

\* d[k] = v as an assignment into a dict.
DictSet(d, k, v) == [x \in (DOMAIN d) \cup {k} |-> IF x = k THEN v ELSE d[x]]

(***************************************************************************)
(* processZeroSalaries(salaries, districtAvgSalary, substituteWithAvg)     *)
(***************************************************************************)
\* The constant written for a zero salary when no average is substituted.
ZeroSalaryConstant == 1

\* A variant that looks the average up whatever the flag says.
ZeroSalaryRaisesEager(accountId) ==
    accountId \notin DOMAIN districtAvgSalary

\* Line 227 raises KeyError when the account has no district average.
ZeroSalaryRaises(accountId) ==
    substituteWithAvg /\ accountId \notin DOMAIN districtAvgSalary

\* A variant that leaves the zero in place when no average is substituted.
ZeroSalaryValueKeepsZero(accountId) ==
    IF substituteWithAvg THEN districtAvgSalary[accountId]
    ELSE 0

\* The value stored for an account whose salary is 0 (lines 226-229).
ZeroSalaryValue(accountId) ==
    IF substituteWithAvg THEN districtAvgSalary[accountId]
    ELSE ZeroSalaryConstant

\* The value stored for an account (lines 224-231).
ProcessedValue(accountId) ==
    IF salaries[accountId] = 0 THEN ZeroSalaryValue(accountId)
    ELSE salaries[accountId]

SalaryInit ==
    /\ salaries \in Dicts(AccountIds, 0..MaxSalary)
    /\ districtAvgSalary \in Dicts(AccountIds, 0..MaxSalary)
    /\ substituteWithAvg \in BOOLEAN
    /\ processedSalaries = EmptyDict
    /\ nZeroSalaries = 0
    /\ pending = DOMAIN salaries
    /\ salariesIn = salaries
    /\ pc = "processZeroSalaries"
    /\ returned = EmptyDict

\* One iteration of "for accountId in salaries" that completes.  The dict is
\* walked in insertion order, which the caller decides: any pending key may
\* be the next one.
SalaryStep ==
    /\ pc = "processZeroSalaries"
    /\ \E accountId \in pending :
        /\ ~(salaries[accountId] = 0 /\ ZeroSalaryRaises(accountId))
        /\ processedSalaries' =
               DictSet(processedSalaries, accountId, ProcessedValue(accountId))
        /\ nZeroSalaries' =
               IF salaries[accountId] = 0 THEN nZeroSalaries + 1
               ELSE nZeroSalaries
        /\ pending' = pending \ {accountId}
    /\ UNCHANGED <<pc, returned, salaries, districtAvgSalary,
                   substituteWithAvg, salariesIn, notSalary>>

\* One iteration whose lookup districtAvgSalary[accountId] raises.
SalaryRaise ==
    /\ pc = "processZeroSalaries"
    /\ \E accountId \in pending :
        /\ salaries[accountId] = 0
        /\ ZeroSalaryRaises(accountId)
        /\ nZeroSalaries' = nZeroSalaries + 1
    /\ pc' = "KeyError"
    /\ UNCHANGED <<returned, salaries, districtAvgSalary, substituteWithAvg,
                   processedSalaries, pending, salariesIn, notSalary>>

\* The loop is exhausted: return processedSalaries.
SalaryReturn ==
    /\ pc = "processZeroSalaries"
    /\ pending = {}
    /\ returned' = processedSalaries
    /\ pc' = "done"
    /\ UNCHANGED <<salaryVars, notSalary>>

SalaryNext == SalaryStep \/ SalaryRaise \/ SalaryReturn

\* Some account with salary 0 has no district average.
ZeroSalaryWithoutAvg ==
    \E a \in DOMAIN salaries : salaries[a] = 0 /\ a \notin DOMAIN districtAvgSalary

\* C1: when processZeroSalaries returns, the returned mapping has exactly the
\* keys of salaries; a zero salary is replaced by the account's district
\* average (substituteWithAvg) or by the constant 1 (otherwise); a non-zero
\* salary is copied; the salaries argument is what it was at the call.
C1_ProcessedSalaries ==
    pc = "done" =>
        /\ DOMAIN returned = DOMAIN salariesIn
        /\ \A a \in DOMAIN salariesIn :
              /\ (salariesIn[a] = 0 /\ substituteWithAvg)
                     => returned[a] = districtAvgSalary[a]
              /\ (salariesIn[a] = 0 /\ ~substituteWithAvg)
                     => returned[a] = 1
              /\ salariesIn[a] # 0 => returned[a] = salariesIn[a]
        /\ salaries = salariesIn

\* A return with the average substituted for one account and another
\* account's non-zero salary copied.
C1_Witness ==
    /\ pc = "done"
    /\ substituteWithAvg
    /\ \E a, b \in DOMAIN salaries :
          /\ salaries[a] = 0 /\ returned[a] = districtAvgSalary[a]
          /\ returned[a] # 0
          /\ salaries[b] # 0

\* C2 as stated: with substituteWithAvg, an account of salaries without a
\* district average (whatever its salary) makes the call fail, so the call
\* does not return.
C2_Original ==
    (substituteWithAvg /\ \E a \in DOMAIN salaries : a \notin DOMAIN districtAvgSalary)
        => pc # "done"

\* C2 as amended: the call ends in KeyError exactly when substituteWithAvg
\* is set and some account with salary 0 has no district average; it then
\* returns nothing, and the call never stops anywhere else than at its
\* return or at that KeyError.
C2_LookupError ==
    /\ pc = "KeyError" => (substituteWithAvg /\ ZeroSalaryWithoutAvg)
    /\ pc = "done" => ~(substituteWithAvg /\ ZeroSalaryWithoutAvg)
    /\ pc = "KeyError" => returned = EmptyDict
    /\ pc = "processZeroSalaries" => ENABLED SalaryNext

\* The lookup of a zero-salary account's missing average has raised.
C2_Witness ==
    /\ pc = "KeyError"
    /\ substituteWithAvg
    /\ ZeroSalaryWithoutAvg

(***************************************************************************)
(* combineFeatures(loans, clients, dispositions, genders, ageGroups,       *)
(*                 effortRates, savingsRates, districtCrimeRates,          *)
(*                 expenses, ages)                                         *)
(*                                                                         *)
(* loans rows are [loan_id, account_id], dispositions rows are             *)
(* [account_id, client_id] and clients rows are [client_id]; the other     *)
(* columns of these tables are not read by the function.  The clients      *)
(* table has the default index 0, 1, 2, ... (position k of the model is    *)
(* label k-1), so genders[clientIndex] is the entry at the row's position. *)
(***************************************************************************)
\* clientId = None (line 92).
None == 0

\* The loan_id of the loan in row i: loan ids are the table's primary key.
LoanIdOfRow(i) == 10 * i

LoanTables ==
    {[i \in 1..Len(acc) |-> [loan_id |-> LoanIdOfRow(i), account_id |-> acc[i]]] :
        acc \in SeqsUpTo(AccountIds, MaxLoans)}

DispositionTables ==
    SeqsUpTo([account_id : AccountIds, client_id : ClientIds], MaxDispositions)

ClientTables == SeqsUpTo([client_id : ClientIds], MaxClients)

\* The positional arrays the caller computed from the clients table: entry k
\* describes the client in row k.  Their values are only copied by
\* combineFeatures, so each entry names its own position.
genders == [k \in 1..Len(clients) |-> <<"gender", k>>]
ageGroups == [k \in 1..Len(clients) |-> <<"ageGroup", k>>]
ages == [k \in 1..Len(clients) |-> <<"age", k>>]

\* The keys the function looks up without a fallback.
RequiredKeys(l) ==
    {<<"effortRates", l[i].loan_id>> : i \in 1..Len(l)}
        \cup {<<"savingsRates", l[i].loan_id>> : i \in 1..Len(l)}
        \cup {<<"districtCrimeRates", l[i].account_id>> : i \in 1..Len(l)}

\* The keys of the dict named d: every required key but the missing ones.
KeysOf(d, l, missing) ==
    {key[2] : key \in {q \in RequiredKeys(l) \ missing : q[1] = d}}

\* A variant of the scan that stops at the first matching disposition.
RECURSIVE ScanDispositionsFirst(_, _, _)
ScanDispositionsFirst(accountId, k, found) ==
    IF k > Len(dispositions) \/ found # None THEN found
    ELSE ScanDispositionsFirst(accountId, k + 1,
             IF dispositions[k].account_id = accountId
             THEN dispositions[k].client_id ELSE found)

\* Lines 95-97: the scan of all dispositions from row k on, found being the
\* value of clientId so far; every matching row overwrites it.
RECURSIVE ScanDispositions(_, _, _)
ScanDispositions(accountId, k, found) ==
    IF k > Len(dispositions) THEN found
    ELSE ScanDispositions(accountId, k + 1,
             IF dispositions[k].account_id = accountId
             THEN dispositions[k].client_id ELSE found)

\* Lines 92-97: the client resolved for an account, None without a match.
ResolveClient(accountId) == ScanDispositions(accountId, 1, None)

\* Lines 100-101: the rows of clients whose client_id is the resolved one.
ClientRows(c) == {k \in 1..Len(clients) : clients[k].client_id = c}

\* Line 102: indexes[indexesBool][0] raises IndexError on no row.
ClientIndexRaises(c) == c # None /\ ClientRows(c) = {}

\* Line 102: the first such row.
ClientIndex(c) == Min(ClientRows(c))

\* Lines 99-108: the list after the demographic part of an iteration.
AppendDemographic(list, array, c) ==
    IF c # None THEN Append(list, array[ClientIndex(c)]) ELSE list

\* A variant of the expenses fallback with another default.
ExpensesOfOtherDefault(accountId) ==
    IF accountId \in DOMAIN expenses THEN expenses[accountId] ELSE 1

\* Lines 114-117: expenses[accountId], 0 on KeyError.
ExpensesOf(accountId) ==
    IF accountId \in DOMAIN expenses THEN expenses[accountId] ELSE 0

CombineInit ==
    /\ loans \in LoanTables
    /\ dispositions \in DispositionTables
    /\ clients \in ClientTables
    /\ \E missing \in SUBSET RequiredKeys(loans) :
          /\ Cardinality(missing) <= MaxMissing
          /\ effortRates =
                 [k \in KeysOf("effortRates", loans, missing) |-> k + 1]
          /\ savingsRates =
                 [k \in KeysOf("savingsRates", loans, missing) |-> k + 2]
          /\ districtCrimeRates =
                 [k \in KeysOf("districtCrimeRates", loans, missing) |-> k + 3]
    /\ \E D \in SUBSET AccountIds : expenses = [a \in D |-> 100 + a]
    /\ clientId = None
    /\ loanIdx = 0
    /\ gendersByLoan = <<>>
    /\ ageGroupByLoan = <<>>
    /\ agesByLoan = <<>>
    /\ effortRateByLoan = <<>>
    /\ savingsRateByLoan = <<>>
    /\ distCrimeByLoan = <<>>
    /\ expensesByLoan = <<>>
    /\ pc = "combineFeatures"
    /\ returned = <<>>

\* The row of the iteration about to run.
CurrentLoan == loans[loanIdx + 1]

\* One iteration of the loop of line 89 that completes.
CombineLoan ==
    /\ pc = "combineFeatures"
    /\ loanIdx < Len(loans)
    /\ LET accountId == CurrentLoan.account_id
           loanId == CurrentLoan.loan_id
           c == ResolveClient(accountId)
       IN  /\ ~ClientIndexRaises(c)
           /\ loanId \in DOMAIN effortRates
           /\ loanId \in DOMAIN savingsRates
           /\ accountId \in DOMAIN districtCrimeRates
           /\ clientId' = c
           /\ gendersByLoan' = AppendDemographic(gendersByLoan, genders, c)
           /\ ageGroupByLoan' = AppendDemographic(ageGroupByLoan, ageGroups, c)
           /\ agesByLoan' = AppendDemographic(agesByLoan, ages, c)
           /\ effortRateByLoan' = Append(effortRateByLoan, effortRates[loanId])
           /\ savingsRateByLoan' = Append(savingsRateByLoan, savingsRates[loanId])
           /\ distCrimeByLoan' = Append(distCrimeByLoan, districtCrimeRates[accountId])
           /\ expensesByLoan' = Append(expensesByLoan, ExpensesOf(accountId))
    /\ loanIdx' = loanIdx + 1
    /\ UNCHANGED <<pc, returned, combineInputs, notCombine>>

\* An iteration that leaves at line 102: the resolved client is in no row
\* of clients.
CombineIndexError ==
    /\ pc = "combineFeatures"
    /\ loanIdx < Len(loans)
    /\ LET c == ResolveClient(CurrentLoan.account_id)
       IN  /\ ClientIndexRaises(c)
           /\ clientId' = c
    /\ pc' = "IndexError"
    /\ UNCHANGED <<returned, combineInputs, loanIdx, combineLists, notCombine>>

\* An iteration that leaves at line 111, 112 or 113: the demographic entries
\* and the entries of the lookups before the failing one are already
\* appended.
CombineKeyError ==
    /\ pc = "combineFeatures"
    /\ loanIdx < Len(loans)
    /\ LET accountId == CurrentLoan.account_id
           loanId == CurrentLoan.loan_id
           c == ResolveClient(accountId)
           hasEffort == loanId \in DOMAIN effortRates
           hasSavings == loanId \in DOMAIN savingsRates
           hasCrime == accountId \in DOMAIN districtCrimeRates
       IN  /\ ~ClientIndexRaises(c)
           /\ ~(hasEffort /\ hasSavings /\ hasCrime)
           /\ clientId' = c
           /\ gendersByLoan' = AppendDemographic(gendersByLoan, genders, c)
           /\ ageGroupByLoan' = AppendDemographic(ageGroupByLoan, ageGroups, c)
           /\ agesByLoan' = AppendDemographic(agesByLoan, ages, c)
           /\ effortRateByLoan' =
                  IF hasEffort THEN Append(effortRateByLoan, effortRates[loanId])
                  ELSE effortRateByLoan
           /\ savingsRateByLoan' =
                  IF hasEffort /\ hasSavings
                  THEN Append(savingsRateByLoan, savingsRates[loanId])
                  ELSE savingsRateByLoan
    /\ pc' = "KeyError"
    /\ UNCHANGED <<returned, combineInputs, loanIdx, distCrimeByLoan,
                   expensesByLoan, notCombine>>

\* Line 119: the loop is exhausted, the seven lists are returned.
CombineReturn ==
    /\ pc = "combineFeatures"
    /\ loanIdx = Len(loans)
    /\ returned' = [gender |-> gendersByLoan, ageGroup |-> ageGroupByLoan,
                    effortRate |-> effortRateByLoan,
                    savingsRate |-> savingsRateByLoan,
                    distCrime |-> distCrimeByLoan,
                    expenses |-> expensesByLoan, age |-> agesByLoan]
    /\ pc' = "done"
    /\ UNCHANGED <<combineVars, notCombine>>

CombineNext ==
    CombineLoan \/ CombineIndexError \/ CombineKeyError \/ CombineReturn

\* The disposition rows of an account.
DispositionRows(accountId) ==
    {k \in 1..Len(dispositions) : dispositions[k].account_id = accountId}

\* The client the claims expect for an account: the client_id of its last
\* disposition row, None when it has none.
ExpectedClient(accountId) ==
    IF DispositionRows(accountId) = {} THEN None
    ELSE dispositions[Max(DispositionRows(accountId))].client_id

\* The first row of clients holding client c.
RowOfClient(c) == Min({k \in 1..Len(clients) : clients[k].client_id = c})

\* The entry the claims expect at a loan's position of a demographic list:
\* the array entry of the resolved client's row, an absent value without a
\* resolved client.
ExpectedDemographic(array, i) ==
    LET c == ExpectedClient(loans[i].account_id)
    IN  IF c = None THEN <<"None">> ELSE array[RowOfClient(c)]

\* The loan of the iteration that ran last: an iteration that raised did not
\* advance loanIdx.
LastLoan == IF pc \in {"IndexError", "KeyError"} THEN loanIdx + 1 ELSE loanIdx

\* Some loan lacks a key of effortRates, savingsRates or districtCrimeRates.
LacksRequired(i) ==
    \/ loans[i].loan_id \notin DOMAIN effortRates
    \/ loans[i].loan_id \notin DOMAIN savingsRates
    \/ loans[i].account_id \notin DOMAIN districtCrimeRates

\* C3 as stated: when combineFeatures returns, each of the seven lists has
\* one entry per loan and entry i belongs to loan i; a loan without a
\* disposition has an absent gender, ageGroup and age at its own position.
C3_OneEntryPerLoan ==
    pc = "done" =>
        /\ \A f \in DOMAIN returned : Len(returned[f]) = Len(loans)
        /\ \A i \in 1..Len(loans) :
              /\ returned.gender[i] = ExpectedDemographic(genders, i)
              /\ returned.ageGroup[i] = ExpectedDemographic(ageGroups, i)
              /\ returned.age[i] = ExpectedDemographic(ages, i)
              /\ returned.effortRate[i] = effortRates[loans[i].loan_id]
              /\ returned.savingsRate[i] = savingsRates[loans[i].loan_id]
              /\ returned.distCrime[i] = districtCrimeRates[loans[i].account_id]

\* C4: after the iteration of a loan whose account has disposition rows,
\* clientId is the client_id of the last of these rows, and, unless that
\* client is in no row of clients (IndexError), the gender, ageGroup and age
\* the iteration appended are the entries of genders, ageGroups and ages at
\* the (first) row of that client in clients.
C4_LastMatchWins ==
    (LastLoan >= 1 /\ DispositionRows(loans[LastLoan].account_id) # {}) =>
        LET rows == DispositionRows(loans[LastLoan].account_id)
        IN  /\ clientId = dispositions[Max(rows)].client_id
            /\ pc # "IndexError" =>
                  /\ gendersByLoan # <<>>
                  /\ gendersByLoan[Len(gendersByLoan)] = genders[RowOfClient(clientId)]
                  /\ ageGroupByLoan[Len(ageGroupByLoan)] = ageGroups[RowOfClient(clientId)]
                  /\ agesByLoan[Len(agesByLoan)] = ages[RowOfClient(clientId)]
            /\ pc = "IndexError" =>
                  \A k \in 1..Len(clients) : clients[k].client_id # clientId

\* An iteration resolved a client through the second of two dispositions of
\* the loan's account that name different clients, and found it in the
\* second row of clients.
C4_Witness ==
    /\ pc = "combineFeatures"
    /\ loanIdx >= 1
    /\ Len(dispositions) = 2
    /\ dispositions[1].account_id = loans[loanIdx].account_id
    /\ dispositions[2].account_id = loans[loanIdx].account_id
    /\ dispositions[1].client_id # dispositions[2].client_id
    /\ clientId = dispositions[2].client_id
    /\ Len(clients) = 2
    /\ clients[1].client_id # clientId
    /\ gendersByLoan[Len(gendersByLoan)] = genders[2]

\* C5: a returned expenses list holds, for every loan, expenses[account_id]
\* or 0 when the account has no entry; the call returns only when every
\* loan has its keys in effortRates, savingsRates and districtCrimeRates,
\* it ends in KeyError only at a loan that lacks one of them (never for a
\* missing expenses entry), and an error returns nothing.  While the loop
\* runs its next loan is a row of loans or the loop is exhausted, so the
\* call goes on until it returns or ends in a lookup error (KeyError,
\* IndexError).
C5_ExpensesDefault ==
    /\ pc = "done" =>
          /\ Len(returned.expenses) = Len(loans)
          /\ \A i \in 1..Len(loans) :
                LET a == loans[i].account_id
                IN  /\ a \in DOMAIN expenses => returned.expenses[i] = expenses[a]
                    /\ a \notin DOMAIN expenses => returned.expenses[i] = 0
          /\ \A i \in 1..Len(loans) : ~LacksRequired(i)
    /\ pc = "KeyError" => LacksRequired(loanIdx + 1)
    /\ pc \in {"KeyError", "IndexError"} => returned = <<>>
    /\ pc = "combineFeatures" => loanIdx <= Len(loans)
    /\ pc \in {"combineFeatures", "done", "KeyError", "IndexError"}

\* The call returned although the account of its first loan has no entry in
\* expenses: that loan got 0 and the second loan was processed after it.
C5_Witness ==
    /\ pc = "done"
    /\ Len(loans) = 2
    /\ loans[1].account_id \notin DOMAIN expenses
    /\ returned.expenses[1] = 0
    /\ loans[2].account_id \in DOMAIN expenses
    /\ returned.expenses[2] = expenses[loans[2].account_id]

\* The call ended in KeyError at the second loan, whose account has no
\* crime rate, the first loan having none of its keys missing.
C5_KeyErrorReached ==
    /\ pc = "KeyError"
    /\ loanIdx = 1
    /\ loans[2].account_id \notin DOMAIN districtCrimeRates

(***************************************************************************)
(* DataFrames: [cols |-> the column names, index |-> the row labels,       *)
(* rows |-> the rows, each a function from cols to the cell's value].      *)
(***************************************************************************)
\* The default index of a table of n rows: 0 .. n-1.
RangeIndex(n) == [i \in 1..n |-> i - 1]

\* A table of the given columns and rows with the default index.
Frame(cols, rows) ==
    [cols |-> cols, index |-> RangeIndex(Len(rows)), rows |-> rows]

EmptyFrame == Frame({}, <<>>)

\* A variant of the check of drop that ignores a missing column.
DropRaisesNever(df, col) == FALSE

\* df.drop(col, axis=1) raises KeyError when col is no column of df.
DropRaises(df, col) == col \notin df.cols

\* df.drop(col, axis=1): a new table without the column.
Drop(df, col) ==
    [cols |-> df.cols \ {col},
     index |-> df.index,
     rows |-> [i \in 1..Len(df.rows) |->
                  [c \in df.cols \ {col} |-> df.rows[i][c]]]]

(***************************************************************************)
(* cleanData(loansDataFrame)                                               *)
(***************************************************************************)
columnsToRemove == <<"loan_id", "account_id">>

\* The tables cleanData is called with: any of these columns, cells 0 or 1.
CleanColumns == {"loan_id", "account_id", "amount", "status"}

CleanFrames ==
    UNION {{Frame(cols, rows) : rows \in SeqsUpTo([cols -> 0..1], MaxCleanRows)} :
              cols \in SUBSET CleanColumns}

CleanInit ==
    /\ loansDataFrame \in CleanFrames
    /\ frameIn = loansDataFrame
    /\ noRedundantData = loansDataFrame
    /\ colIdx = 0
    /\ pc = "cleanData"
    /\ returned = EmptyFrame

\* One iteration of the loop of line 135 that completes.
CleanDrop ==
    /\ pc = "cleanData"
    /\ colIdx < Len(columnsToRemove)
    /\ ~DropRaises(noRedundantData, columnsToRemove[colIdx + 1])
    /\ noRedundantData' = Drop(noRedundantData, columnsToRemove[colIdx + 1])
    /\ colIdx' = colIdx + 1
    /\ UNCHANGED <<pc, returned, frameVars, notClean>>

\* An iteration whose drop raises: the column is not in the table.
CleanKeyError ==
    /\ pc = "cleanData"
    /\ colIdx < Len(columnsToRemove)
    /\ DropRaises(noRedundantData, columnsToRemove[colIdx + 1])
    /\ pc' = "KeyError"
    /\ UNCHANGED <<returned, frameVars, cleanVars, notClean>>

\* Line 137.
CleanReturn ==
    /\ pc = "cleanData"
    /\ colIdx = Len(columnsToRemove)
    /\ returned' = noRedundantData
    /\ pc' = "done"
    /\ UNCHANGED <<frameVars, cleanVars, notClean>>

CleanNext == CleanDrop \/ CleanKeyError \/ CleanReturn

\* C6: cleanData returns only for a table that has loan_id and account_id;
\* the returned table has every other column and no other, the same rows in
\* the same order with the same values in these columns, and the argument
\* is what it was at the call.  For a table lacking either column the call
\* ends in KeyError and returns nothing; it stops nowhere else.
C6_CleanData ==
    /\ pc = "done" =>
          /\ {"loan_id", "account_id"} \subseteq frameIn.cols
          /\ returned.cols = frameIn.cols \ {"loan_id", "account_id"}
          /\ returned.index = frameIn.index
          /\ Len(returned.rows) = Len(frameIn.rows)
          /\ \A i \in 1..Len(frameIn.rows) :
                /\ DOMAIN returned.rows[i] = returned.cols
                /\ \A c \in returned.cols :
                      returned.rows[i][c] = frameIn.rows[i][c]
    /\ loansDataFrame = frameIn
    /\ ~({"loan_id", "account_id"} \subseteq frameIn.cols) =>
          /\ pc # "done"
          /\ returned = EmptyFrame
    /\ pc = "KeyError" => ~({"loan_id", "account_id"} \subseteq frameIn.cols)
    /\ pc = "cleanData" => ENABLED CleanNext

\* cleanData returned a table of two rows that differ in a kept column.
C6_Witness ==
    /\ pc = "done"
    /\ frameIn.cols = CleanColumns
    /\ Len(frameIn.rows) = 2
    /\ frameIn.rows[1]["amount"] # frameIn.rows[2]["amount"]
    /\ returned.cols = {"amount", "status"}
    /\ returned.rows[1]["amount"] # returned.rows[2]["amount"]

\* cleanData ended in KeyError at its second drop: the table has loan_id
\* but no account_id.
C6_KeyErrorReached ==
    /\ pc = "KeyError"
    /\ colIdx = 1
    /\ "account_id" \notin frameIn.cols

(***************************************************************************)
(* removeOutliers(loansDataFrame)                                          *)
(*                                                                         *)
(* The cells of the scored columns are integers and the arithmetic of      *)
(* stats.zscore (mean, population standard deviation, division) is exact:  *)
(* with x the column, n its length, m its mean and d[i] = n * (x[i] - m),  *)
(* z[i]^2 = n * d[i]^2 / sum(d^2).  A column of zero variance has          *)
(* sum(d^2) = 0: every z[i] is nan, and nan < 3 is False.                  *)
(***************************************************************************)
nonCategoricalColumns ==
    <<"savingsRate", "distCrime", "amount", "duration", "payments", "expenses">>

\* np.abs(stats.zscore(...)) < 3 (line 156).
ZThreshold == 3

RECURSIVE SumTo(_, _)
SumTo(x, k) == IF k = 0 THEN 0 ELSE SumTo(x, k - 1) + x[k]

\* The sum of a sequence of numbers.
Sum(x) == SumTo(x, Len(x))

\* result[col]: the column as a sequence.
Column(df, col) == [i \in 1..Len(df.rows) |-> df.rows[i][col]]

\* np.abs(stats.zscore(x)) < 3 as a mask over the entries of x: with
\* d[i] = n * (x[i] - mean(x)), entry i is True when sum(d^2) > 0 and
\* n * d[i]^2 < 9 * sum(d^2), and False for the nan of a constant column.
AbsZBelow(x) ==
    LET n == Len(x)
        total == Sum(x)
        d == [i \in 1..n |-> n * x[i] - total]
        ss == Sum([j \in 1..n |-> d[j] * d[j]])
    IN  [i \in 1..n |-> ss > 0 /\ n * d[i] * d[i] < ZThreshold * ZThreshold * ss]

\* The entries of seq from position k on whose mask entry is True.
RECURSIVE KeepFrom(_, _, _)
KeepFrom(seq, mask, k) ==
    IF k > Len(seq) THEN <<>>
    ELSE (IF mask[k] THEN <<seq[k]>> ELSE <<>>) \o KeepFrom(seq, mask, k + 1)

\* df[mask]: the rows whose mask entry is True, in order, with their labels.
BoolIndex(df, mask) ==
    [cols |-> df.cols,
     index |-> KeepFrom(df.index, mask, 1),
     rows |-> KeepFrom(df.rows, mask, 1)]

\* Line 156: the table without the rows whose |z| in col is not below 3.
FilterColumn(df, col) == BoolIndex(df, AbsZBelow(Column(df, col)))

\* The columns removeOutliers is called with.  A column is flat, or flat
\* but for its last two rows, or alternates between two values, or
\* alternates but for a far larger last row.
ColumnShapes(n) ==
    { [i \in 1..n |-> 5],
      [i \in 1..n |-> IF i >= n - 1 THEN 9 ELSE 5],
      [i \in 1..n |-> 5 + (i % 2)],
      [i \in 1..n |-> IF i = n THEN 50 ELSE 5 + (i % 2)] }

OutlierRowCounts == {1, MaxOutlierRows - 1, MaxOutlierRows}

OutlierColumns == {nonCategoricalColumns[k] : k \in 1..Len(nonCategoricalColumns)}

OutlierFrames ==
    UNION {{Frame(OutlierColumns, [i \in 1..n |-> [c \in OutlierColumns |-> shape[c][i]]]) :
               shape \in [OutlierColumns -> ColumnShapes(n)]} :
              n \in OutlierRowCounts}

OutlierInit ==
    /\ loansDataFrame \in OutlierFrames
    /\ frameIn = loansDataFrame
    /\ result = loansDataFrame
    /\ totalOutliers = 0
    /\ colPos = 0
    /\ scored = <<>>
    /\ pc = "removeOutliers"
    /\ returned = EmptyFrame

\* One iteration of the loop of line 154.
OutlierFilter ==
    /\ pc = "removeOutliers"
    /\ colPos < Len(nonCategoricalColumns)
    /\ LET filtered == FilterColumn(result, nonCategoricalColumns[colPos + 1])
       IN  /\ result' = filtered
           /\ totalOutliers' =
                  totalOutliers + (Len(result.rows) - Len(filtered.rows))
    /\ scored' = Append(scored, result.index)
    /\ colPos' = colPos + 1
    /\ UNCHANGED <<pc, returned, frameVars, notOutliers>>

\* Line 162.
OutlierReturn ==
    /\ pc = "removeOutliers"
    /\ colPos = Len(nonCategoricalColumns)
    /\ returned' = result
    /\ pc' = "done"
    /\ UNCHANGED <<frameVars, outlierVars, notOutliers>>

OutlierNext == OutlierFilter \/ OutlierReturn

\* The cells of a column of the argument in the rows of the given labels.
CellsAt(col, labels) ==
    [k \in 1..Len(labels) |-> frameIn.rows[labels[k] + 1][col]]

\* The positions of a column x with |z| >= 3, by the textbook formula
\* z^2 = (n*x[i] - S)^2 / (n*Q - S^2) with S the sum and Q the sum of
\* squares; no entry of a constant column has a z-score.
AbsZAtLeast3(x) ==
    LET n == Len(x)
        S == Sum(x)
        Q == Sum([j \in 1..n |-> x[j] * x[j]])
    IN  {i \in 1..n :
            /\ n * Q - S * S > 0
            /\ (n * x[i] - S) * (n * x[i] - S) >= 9 * (n * Q - S * S)}

\* The labels a step removed: those scored at step k and not at the next.
RemovedAt(k) ==
    LET after == IF k < Len(scored) THEN scored[k + 1] ELSE result.index
    IN  {scored[k][i] : i \in 1..Len(scored[k])}
            \ {after[i] : i \in 1..Len(after)}

\* The labels with |z| >= 3 among the rows scored at step k.
OutliersAt(k) ==
    {scored[k][i] :
        i \in AbsZAtLeast3(CellsAt(nonCategoricalColumns[k], scored[k]))}

\* The column scored at step k keeps one value over the rows scored.
FlatAt(k) ==
    LET x == CellsAt(nonCategoricalColumns[k], scored[k])
    IN  \A i, j \in 1..Len(x) : x[i] = x[j]

\* C7 as stated: the k-th step scores the k-th of the six columns over the
\* rows that survived the earlier steps and removes exactly the rows with
\* |z| >= 3.
C7_SequentialZScore ==
    /\ Len(scored) = colPos
    /\ \A k \in 1..Len(scored) : RemovedAt(k) = OutliersAt(k)

\* The part of C7 that holds of the code: at every step whose column is
\* not flat over the rows scored, the rows removed are exactly those with
\* |z| >= 3 over these rows; at a step whose column is flat, every row
\* scored is removed.
C7_OnVaryingColumns ==
    /\ Len(scored) = colPos
    /\ \A k \in 1..Len(scored) :
          /\ ~FlatAt(k) => RemovedAt(k) = OutliersAt(k)
          /\ FlatAt(k) => RemovedAt(k) = {scored[k][i] : i \in 1..Len(scored[k])}

\* The rows an independent filter of each column on the whole argument
\* would keep.
IndependentLabels ==
    {frameIn.index[i] : i \in 1..Len(frameIn.rows)}
        \ UNION {{frameIn.index[i] :
                     i \in AbsZAtLeast3(Column(frameIn, nonCategoricalColumns[k]))} :
                  k \in 1..Len(nonCategoricalColumns)}

\* A return where no column was flat when scored, a row had |z| exactly 3
\* and was removed, and the rows returned are not those an independent
\* filter keeps.
C7_DiffersFromIndependent ==
    /\ pc = "done"
    /\ \A k \in 1..Len(scored) : ~FlatAt(k)
    /\ {returned.index[i] : i \in 1..Len(returned.rows)} # IndependentLabels
    /\ Len(returned.rows) = MaxOutlierRows - 2

\* C8 as stated: for a non-empty table whose six scored columns are all
\* flat, removeOutliers returns every row of the table.
C8_ZeroVarianceKeepsRows ==
    ( /\ pc = "done"
      /\ Len(frameIn.rows) > 0
      /\ \A k \in 1..Len(nonCategoricalColumns) :
            \A i, j \in 1..Len(frameIn.rows) :
                frameIn.rows[i][nonCategoricalColumns[k]]
                    = frameIn.rows[j][nonCategoricalColumns[k]] )
        => returned = frameIn

(***************************************************************************)
(* labelEncoding(loansDataFrame)                                           *)
(*                                                                         *)
(* A category is a string; LabelEncoder orders the observed values as      *)
(* Python orders strings.  A date cell is the text of the date as a        *)
(* sequence of characters.                                                 *)
(***************************************************************************)
\* The category values of the model in Python's ascending string order
\* (upper case before lower case, then by letter).
LabelOrder == <<"F", "M", "adult", "senior", "young">>

\* a < b for two category values.
LabelBefore(a, b) ==
    \E i, j \in 1..Len(LabelOrder) :
        LabelOrder[i] = a /\ LabelOrder[j] = b /\ i < j

\* seq with v inserted before its first entry that is not below v, unless
\* v is that entry.
RECURSIVE InsertSorted(_, _)
InsertSorted(seq, v) ==
    IF seq = <<>> THEN <<v>>
    ELSE IF Head(seq) = v THEN seq
    ELSE IF LabelBefore(v, Head(seq)) THEN <<v>> \o seq
    ELSE <<Head(seq)>> \o InsertSorted(Tail(seq), v)

\* A variant of the classes of an encoder: the distinct values in the order
\* of their first appearance.
RECURSIVE ClassesInOrderOfAppearance(_)
ClassesInOrderOfAppearance(values) ==
    IF values = <<>> THEN <<>>
    ELSE LET before == ClassesInOrderOfAppearance(SubSeq(values, 1, Len(values) - 1))
             v == values[Len(values)]
         IN  IF \E k \in 1..Len(before) : before[k] = v THEN before
             ELSE Append(before, v)

\* LabelEncoder.fit: classes_ is the sorted sequence of the distinct values.
RECURSIVE Classes(_)
Classes(values) ==
    IF values = <<>> THEN <<>>
    ELSE InsertSorted(Classes(Tail(values)), Head(values))

\* LabelEncoder.transform: the 0-based position of each value in classes_.
Transform(classes, values) ==
    [i \in 1..Len(values) |->
        (CHOOSE k \in 1..Len(classes) : classes[k] = values[i]) - 1]

\* le.fit_transform(column) (lines 179-180).
FitTransform(values) == Transform(Classes(values), values)

\* df[col] = values: the column is added, or replaced when it exists.
AssignColumn(df, col, values) ==
    [cols |-> df.cols \cup {col},
     index |-> df.index,
     rows |-> [i \in 1..Len(df.rows) |->
                  [c \in df.cols \cup {col} |->
                      IF c = col THEN values[i] ELSE df.rows[i][c]]]]

\* The value of a decimal digit character, -1 for any other character.
DigitValue(ch) ==
    CASE ch = "0" -> 0 [] ch = "1" -> 1 [] ch = "2" -> 2 [] ch = "3" -> 3
      [] ch = "4" -> 4 [] ch = "5" -> 5 [] ch = "6" -> 6 [] ch = "7" -> 7
      [] ch = "8" -> 8 [] ch = "9" -> 9 [] OTHER -> -1

\* The number written by the characters from..to of text, -1 when one of
\* them is no digit.
RECURSIVE NumberAt(_, _, _)
NumberAt(text, from, to) ==
    IF to < from THEN 0
    ELSE LET high == NumberAt(text, from, to - 1)
             low == DigitValue(text[to])
         IN  IF high < 0 \/ low < 0 THEN -1 ELSE 10 * high + low

IsLeapYear(y) == (y % 4 = 0 /\ y % 100 # 0) \/ y % 400 = 0

DaysInMonth(y, m) ==
    IF m = 2 THEN (IF IsLeapYear(y) THEN 29 ELSE 28)
    ELSE IF m \in {4, 6, 9, 11} THEN 30 ELSE 31

\* utils.convertFullDate on the text "YYYY-MM-DD": the year, month and day
\* it reads, valid when the text has that form and names a calendar date.
ParsedDate(text) ==
    LET wellFormed == Len(text) = 10 /\ text[5] = "-" /\ text[8] = "-"
        y == IF wellFormed THEN NumberAt(text, 1, 4) ELSE -1
        m == IF wellFormed THEN NumberAt(text, 6, 7) ELSE -1
        d == IF wellFormed THEN NumberAt(text, 9, 10) ELSE -1
    IN  [year |-> y, month |-> m, day |-> d,
         valid |-> /\ wellFormed
                   /\ y >= 1 /\ m \in 1..12
                   /\ d >= 1 /\ d <= DaysInMonth(y, m)]

\* convertFullDate(text) raises instead of returning a date.
ConvertFullDateRaises(text) == ~ParsedDate(text).valid

\* The date cells of the model, each with the month and day a reader of the
\* text expects: 1997-05-12, 1996-02-29 (a leap day), 1997-02-29 (no such
\* day) and 1997-5-12 (not the form YYYY-MM-DD).
DateCases ==
    { [text |-> <<"1", "9", "9", "7", "-", "0", "5", "-", "1", "2">>,
       valid |-> TRUE, month |-> 5, day |-> 12],
      [text |-> <<"1", "9", "9", "6", "-", "0", "2", "-", "2", "9">>,
       valid |-> TRUE, month |-> 2, day |-> 29],
      [text |-> <<"1", "9", "9", "7", "-", "0", "2", "-", "2", "9">>,
       valid |-> FALSE, month |-> 0, day |-> 0],
      [text |-> <<"1", "9", "9", "7", "-", "5", "-", "1", "2">>,
       valid |-> FALSE, month |-> 0, day |-> 0] }

EncodeColumns == {"gender", "ageGroup", "date", "amount"}

\* The tables labelEncoding is called with.
EncodeFrames ==
    {Frame(EncodeColumns, rows) :
        rows \in SeqsUpTo([gender : {"F", "M"},
                           ageGroup : {"adult", "senior", "young"},
                           date : {c.text : c \in DateCases},
                           amount : 0..1], MaxEncodeRows)}

\* A variant of lines 200-204 with line 202 in force: the year is kept.
AddDateColumnsWithYear(df, y, m, d) ==
    AssignColumn(AssignColumn(AssignColumn(Drop(df, "date"), "year", y),
                              "month", m), "day", d)

\* Lines 200-204: the date column is dropped, month and day are added.
AddDateColumns(df, y, m, d) ==
    AssignColumn(AssignColumn(Drop(df, "date"), "month", m), "day", d)

EncodeInit ==
    /\ loansDataFrame \in EncodeFrames
    /\ frameIn = loansDataFrame
    /\ encodedDataFrame = EmptyFrame
    /\ years = <<>>
    /\ months = <<>>
    /\ days = <<>>
    /\ rowIdx = 0
    /\ pc = "labelEncoding"
    /\ returned = EmptyFrame

\* Lines 177-186: both columns are encoded, dropped and added again.
EncodeCategories ==
    /\ pc = "labelEncoding"
    /\ LET encodedGender == FitTransform(Column(loansDataFrame, "gender"))
           encodedAgeGroup == FitTransform(Column(loansDataFrame, "ageGroup"))
           dropped == Drop(Drop(loansDataFrame, "gender"), "ageGroup")
       IN  encodedDataFrame' =
               AssignColumn(AssignColumn(dropped, "gender", encodedGender),
                            "ageGroup", encodedAgeGroup)
    /\ pc' = "labelEncoding.dates"
    /\ UNCHANGED <<returned, frameVars, years, months, days, rowIdx, notEncode>>

\* One iteration of the loop of line 193 that completes.
EncodeDate ==
    /\ pc = "labelEncoding.dates"
    /\ rowIdx < Len(encodedDataFrame.rows)
    /\ LET text == encodedDataFrame.rows[rowIdx + 1]["date"]
       IN  /\ ~ConvertFullDateRaises(text)
           /\ years' = Append(years, ParsedDate(text).year)
           /\ months' = Append(months, ParsedDate(text).month)
           /\ days' = Append(days, ParsedDate(text).day)
    /\ rowIdx' = rowIdx + 1
    /\ UNCHANGED <<pc, returned, frameVars, encodedDataFrame, notEncode>>

\* An iteration whose convertFullDate raises.
EncodeParseError ==
    /\ pc = "labelEncoding.dates"
    /\ rowIdx < Len(encodedDataFrame.rows)
    /\ ConvertFullDateRaises(encodedDataFrame.rows[rowIdx + 1]["date"])
    /\ pc' = "ParseError"
    /\ UNCHANGED <<returned, frameVars, encodeVars, notEncode>>

\* Lines 200-205.
EncodeReturn ==
    /\ pc = "labelEncoding.dates"
    /\ rowIdx = Len(encodedDataFrame.rows)
    /\ encodedDataFrame' = AddDateColumns(encodedDataFrame, years, months, days)
    /\ returned' = encodedDataFrame'
    /\ pc' = "done"
    /\ UNCHANGED <<frameVars, years, months, days, rowIdx, notEncode>>

EncodeNext ==
    EncodeCategories \/ EncodeDate \/ EncodeParseError \/ EncodeReturn

\* The values observed in a column of the argument.
Observed(col) == {frameIn.rows[i][col] : i \in 1..Len(frameIn.rows)}

\* The rank of a value among the observed values of a column: the number
\* of observed values below it.
RankIn(col, v) == Cardinality({w \in Observed(col) : LabelBefore(w, v)})

\* C9: once the categories are encoded, in the gender column and in the
\* ageGroup column the code of a row is the rank, from 0, of the row's value
\* among the distinct values observed in that column of the argument; so
\* equal values have equal codes, different values different codes, and
\* the codes are exactly 0..k-1 for k distinct values, whatever the order
\* of the rows.
C9_LabelCodes ==
    pc \in {"labelEncoding.dates", "ParseError", "done"} =>
        \A col \in {"gender", "ageGroup"} :
            /\ Len(encodedDataFrame.rows) = Len(frameIn.rows)
            /\ \A i \in 1..Len(frameIn.rows) :
                  encodedDataFrame.rows[i][col] = RankIn(col, frameIn.rows[i][col])
            /\ \A i, j \in 1..Len(frameIn.rows) :
                  (frameIn.rows[i][col] = frameIn.rows[j][col])
                      <=> (encodedDataFrame.rows[i][col] = encodedDataFrame.rows[j][col])
            /\ {encodedDataFrame.rows[i][col] : i \in 1..Len(frameIn.rows)}
                  = 0..(Cardinality(Observed(col)) - 1)

\* labelEncoding returned for two rows whose age groups appear in
\* descending order and are not the lowest category: the first row has
\* code 1 and the second code 0.
C9_Witness ==
    /\ pc = "done"
    /\ Len(frameIn.rows) = 2
    /\ frameIn.rows[1]["ageGroup"] = "young"
    /\ frameIn.rows[2]["ageGroup"] = "senior"
    /\ returned.rows[1]["ageGroup"] = 1
    /\ returned.rows[2]["ageGroup"] = 0
    /\ frameIn.rows[1]["gender"] = "M"
    /\ frameIn.rows[2]["gender"] = "M"
    /\ returned.rows[1]["gender"] = 0

\* The case of a date cell.
CaseOf(text) == CHOOSE c \in DateCases : c.text = text

\* C10: labelEncoding returns only when every date of the argument is a
\* valid date; the returned table has the rows of the argument, no date and
\* no year column, a month and a day column holding the month and the day
\* of the row's date, and the other columns but gender and ageGroup with
\* their values; the argument is what it was at the call.  With a date
\* that cannot be parsed the call never returns: while the loop runs its
\* next row is a row of the table or the loop is exhausted, and it ends in
\* the parse error at the first such date, returning nothing.
C10_DateSplit ==
    /\ pc = "done" =>
          /\ \A i \in 1..Len(frameIn.rows) : CaseOf(frameIn.rows[i]["date"]).valid
          /\ Len(returned.rows) = Len(frameIn.rows)
          /\ returned.index = frameIn.index
          /\ returned.cols = (frameIn.cols \ {"date"}) \cup {"month", "day"}
          /\ "date" \notin returned.cols /\ "year" \notin returned.cols
          /\ \A i \in 1..Len(frameIn.rows) :
                /\ DOMAIN returned.rows[i] = returned.cols
                /\ returned.rows[i]["month"] = CaseOf(frameIn.rows[i]["date"]).month
                /\ returned.rows[i]["day"] = CaseOf(frameIn.rows[i]["date"]).day
                /\ \A c \in frameIn.cols \ {"gender", "ageGroup", "date"} :
                      returned.rows[i][c] = frameIn.rows[i][c]
    /\ loansDataFrame = frameIn
    /\ (\E i \in 1..Len(frameIn.rows) : ~CaseOf(frameIn.rows[i]["date"]).valid) =>
          /\ pc # "done"
          /\ returned = EmptyFrame
    /\ pc = "ParseError" =>
          /\ ~CaseOf(frameIn.rows[rowIdx + 1]["date"]).valid
          /\ \A i \in 1..rowIdx : CaseOf(frameIn.rows[i]["date"]).valid
    /\ pc = "labelEncoding.dates" => rowIdx <= Len(frameIn.rows)
    /\ pc \in {"labelEncoding", "labelEncoding.dates", "done", "ParseError"}

\* labelEncoding returned for the dates 1997-05-12 and 1996-02-29.
C10_Witness ==
    /\ pc = "done"
    /\ Len(frameIn.rows) = 2
    /\ frameIn.rows[1]["date"] = <<"1", "9", "9", "7", "-", "0", "5", "-", "1", "2">>
    /\ returned.rows[1]["month"] = 5
    /\ returned.rows[1]["day"] = 12
    /\ returned.rows[2]["month"] = 2
    /\ returned.rows[2]["day"] = 29
    /\ frameIn.rows[1]["amount"] # frameIn.rows[2]["amount"]
    /\ returned.rows[1]["amount"] = frameIn.rows[1]["amount"]

\* labelEncoding ended in the parse error at its second row.
C10_ParseErrorReached ==
    /\ pc = "ParseError"
    /\ rowIdx = 1

(***************************************************************************)
(* The specifications: one call of one function.  The locals of the other  *)
(* functions do not exist during the call; they hold a fixed value.        *)
(***************************************************************************)
SalaryUnused ==
    /\ salaries = <<>> /\ districtAvgSalary = <<>> /\ substituteWithAvg = FALSE
    /\ processedSalaries = <<>> /\ nZeroSalaries = 0 /\ pending = {}
    /\ salariesIn = <<>>

CombineUnused ==
    /\ loans = <<>> /\ clients = <<>> /\ dispositions = <<>>
    /\ effortRates = <<>> /\ savingsRates = <<>> /\ districtCrimeRates = <<>>
    /\ expenses = <<>> /\ clientId = None /\ loanIdx = 0
    /\ gendersByLoan = <<>> /\ ageGroupByLoan = <<>> /\ agesByLoan = <<>>
    /\ effortRateByLoan = <<>> /\ savingsRateByLoan = <<>>
    /\ distCrimeByLoan = <<>> /\ expensesByLoan = <<>>

FrameUnused == loansDataFrame = <<>> /\ frameIn = <<>>

CleanUnused == noRedundantData = <<>> /\ colIdx = 0

OutlierUnused ==
    result = <<>> /\ totalOutliers = 0 /\ colPos = 0 /\ scored = <<>>

EncodeUnused ==
    /\ encodedDataFrame = <<>> /\ years = <<>> /\ months = <<>> /\ days = <<>>
    /\ rowIdx = 0

InitSalary ==
    /\ CombineUnused /\ FrameUnused /\ CleanUnused /\ OutlierUnused
    /\ EncodeUnused /\ SalaryInit

SpecSalary == InitSalary /\ [][SalaryNext]_vars

InitCombine ==
    /\ SalaryUnused /\ FrameUnused /\ CleanUnused /\ OutlierUnused
    /\ EncodeUnused /\ CombineInit

SpecCombine == InitCombine /\ [][CombineNext]_vars

InitClean ==
    /\ SalaryUnused /\ CombineUnused /\ OutlierUnused /\ EncodeUnused
    /\ CleanInit

SpecClean == InitClean /\ [][CleanNext]_vars

InitOutliers ==
    /\ SalaryUnused /\ CombineUnused /\ CleanUnused /\ EncodeUnused
    /\ OutlierInit

SpecOutliers == InitOutliers /\ [][OutlierNext]_vars

InitEncode ==
    /\ SalaryUnused /\ CombineUnused /\ CleanUnused /\ OutlierUnused
    /\ EncodeInit

SpecEncode == InitEncode /\ [][EncodeNext]_vars

=============================================================================
